---- MODULE Spec2Model ----
(***************************************************************************)
(* dkkdownload (src/main.rs): one run of the command-line client.  The run *)
(* reads the bounding polygon, opens the output writer, POSTs the export   *)
(* job, polls its status once per probing interval until the service says  *)
(* the archive is ready, then GETs the archive and copies it to the output *)
(* writer.  main() turns run_app()'s result into the process exit code.    *)
(*                                                                         *)
(* The remote service, the file system and the byte stream are the         *)
(* environment: every response, I/O outcome and chunk size is drawn from a *)
(* small set at the step that consumes it.                                 *)
(***************************************************************************)
EXTENDS Integers, Sequences, FiniteSets, TLC

VARIABLES
  pc,               \* position of the run in main()/run_app()
  show_progress,    \* main.rs:106
  output_writer,    \* main.rs:123  [kind, open, tee]
  sink,             \* bytes the underlying file / stdout has received
  reqs,             \* requests sent so far, in order: [verb, url]
  resps,            \* what came back for each request: [call, code]
  res,              \* the response to the POST, then to each status GET
                    \* (main.rs:151, shadowed at main.rs:177)
  zipfileres,       \* the response to the archive GET (main.rs:217)
  reqid,            \* main.rs:165
  download_url,     \* main.rs:214
  waits,            \* number of sleep(probing_interval) performed, main.rs:204
  progress_foreign, \* main.rs:167  job progress bar
  progress_own,     \* main.rs:226  download progress bar
  stream,           \* bytes of the fetch body not yet read
  buf,              \* chunk read from the stream and not yet written
  result,           \* what run_app() returned
  stderr_out,       \* error lines written to standard error
  exit_code         \* process exit status, -1 while running

vars == << pc, show_progress, output_writer, sink, reqs, resps, res,
           zipfileres, reqid,
           download_url, waits, progress_foreign, progress_own, stream, buf,
           result, stderr_out, exit_code >>

-----------------------------------------------------------------------------
(* Bounds of the model. *)

\* most status requests one run may issue
MaxPolls == 4
\* longest archive body, in bytes
MaxLen == 3

\* byte values of the archive body
Bytes == {0, 1}

-----------------------------------------------------------------------------
(* Program constants. *)

StatusCode_ACCEPTED == 202
StatusCode_OK == 200
StatusCode_CREATED == 201
\* exit status of a Rust process whose main thread panicked
PanicExit == 101

root_url == "https://downloads.pdok.nl"
root_api_url == << root_url, "/kadastralekaart/api/v4_0" >>

\* status codes the service is scripted to answer with
StatusCodes == {200, 201, 202, 404, 500}
\* resps entry code of a request that failed in transport (send() returned Err)
TransportFailure == 0

-----------------------------------------------------------------------------
(* JSON values (json::JsonValue), as far as the run looks at them. *)

Null == [t |-> "null", s |-> "", n |-> 0]
Str(x) == [t |-> "str", s |-> x, n |-> 0]
Num(k) == [t |-> "num", s |-> "", n |-> k]

\* JsonValue::as_str: Some only for a string
as_str(v) == IF v.t = "str" THEN << v.s >> ELSE << >>
\* JsonValue::as_u64: Some only for a number
as_u64(v) == IF v.t = "num" THEN << v.n >> ELSE << >>
\* Display for JsonValue: a string prints raw, null prints "null", a number its digits
DisplayJson(v) ==
  CASE v.t = "str" -> v.s
    [] v.t = "null" -> "null"
    [] OTHER -> ToString(v.n)

(* A response body: unreadable (text() fails), text that is not JSON, or a  *)
(* JSON object, of which only the field the run indexes is kept.            *)
Body(kind, text, field) == [kind |-> kind, text |-> text, field |-> field]
NoBody == Body("unreadable", "", Null)

\* reqwest::Response: status, body, archive bytes, declared content length
\* (content_length(): Some(n) or None) and the URL it answers
Response(code, body, bytes, len) ==
  [code |-> code, body |-> body, bytes |-> bytes, length |-> len, url |-> << >>]
NoResponse == Response(TransportFailure, NoBody, << >>, << >>)

\* Response::text(): Some(text) unless reading the body fails
text(r) == IF r.body.kind = "unreadable" THEN << >> ELSE << r.body.text >>
\* json::parse of the body text: Some(object) only for JSON
parse(r) == IF r.body.kind = "json" THEN << r.body.field >> ELSE << >>

-----------------------------------------------------------------------------
(* Errors and results of run_app(). *)

BoxErr(kind, response, response_text, method) ==
  [kind |-> kind, response |-> response, response_text |-> response_text,
   method |-> method]
\* std::io::Error, reqwest::Error and json::Error carry no response
IoError == BoxErr("io", NoResponse, << >>, "")
ReqwestError == BoxErr("reqwest", NoResponse, << >>, "")
JsonError == BoxErr("json", NoResponse, << >>, "")

\* UnexpectedStatusCodeError::new: the body text is read best-effort
UnexpectedStatusCodeError(response, method) ==
  BoxErr("status", response, text(response), method)

\* Display for UnexpectedStatusCodeError: the pieces written, in order
fmt(err) ==
  << "Onverwachte status code (", ToString(err.response.code),
     ") gekregen als antwoord op ", err.method, " " >>
  \o err.response.url \o << "\n" >>
  \o (IF err.response_text # << >>
        THEN << "De PDOK API zegt:\n", err.response_text[1] >>
        ELSE << >>)

\* Display of the boxed error main() prints
Display(err) == IF err.kind = "status" THEN fmt(err) ELSE << err.kind >>

Running == [tag |-> "running", err |-> IoError]
Ok == [tag |-> "Ok", err |-> IoError]
Err(e) == [tag |-> "Err", err |-> e]

-----------------------------------------------------------------------------
(* What the environment may answer. *)

RECURSIVE SeqsUpTo(_, _)
\* all sequences over S of length at most n
SeqsUpTo(S, n) ==
  IF n = 0 THEN { << >> }
  ELSE LET shorter == SeqsUpTo(S, n - 1)
       IN  shorter \cup { Append(q, x) : q \in shorter, x \in S }

JsonBody(name, v) ==
  Body("json", "{" \o name \o ":" \o v.t \o " " \o DisplayJson(v) \o "}", v)
\* bodies of a response whose content the run only quotes in an error
PlainBodies == { NoBody, Body("notjson", "oops", Null) }

SubmitBodies ==
  PlainBodies
  \cup { JsonBody("downloadRequestId", v) :
           v \in { Null, Str("abc123"), Str("xyz789"), Num(5) } }
ProcessingBodies ==
  PlainBodies
  \cup { JsonBody("progress", v) : v \in { Null, Num(10), Num(55), Str("half") } }
ReadyBodies ==
  PlainBodies
  \cup { JsonBody("href", v) : v \in { Null, Str("/dl/abc123.zip"), Num(7) } }

SubmitResponses ==
  { Response(c, b, << >>, << >>) :
      c \in StatusCodes,
      b \in SubmitBodies }
StatusResponses ==
  { Response(StatusCode_OK, b, << >>, << >>) : b \in ProcessingBodies }
  \cup { Response(StatusCode_CREATED, b, << >>, << >>) : b \in ReadyBodies }
  \cup { Response(c, b, << >>, << >>) :
           c \in StatusCodes \ { StatusCode_OK, StatusCode_CREATED },
           b \in PlainBodies }
\* a body that arrives in full has the declared length, when one is declared
FetchResponses ==
  { Response(StatusCode_OK, NoBody, bytes, len) :
      bytes \in SeqsUpTo(Bytes, MaxLen),
      len \in { << >> } }
  \cup { Response(StatusCode_OK, NoBody, bytes, << Len(bytes) >>) :
           bytes \in SeqsUpTo(Bytes, MaxLen) }
  \cup { Response(c, b, IF b = NoBody THEN << >> ELSE << 1 >>, << >>) :
           c \in StatusCodes \ { StatusCode_OK },
           b \in PlainBodies }

-----------------------------------------------------------------------------
(* State at process start: arguments parsed (main.rs:75-106), nothing done. *)

NoWriter == [kind |-> "none", open |-> FALSE, tee |-> FALSE]
NoBar == [on |-> FALSE, total |-> 0, current |-> 0, ticks |-> 0,
          finished |-> FALSE]
\* ProgressBar::on(handle, total)
ProgressBar(total) == [on |-> TRUE, total |-> total, current |-> 0, ticks |-> 0,
                       finished |-> FALSE]

Init ==
  /\ pc = "read_polygon"
  /\ show_progress \in BOOLEAN
  /\ output_writer = NoWriter
  /\ sink = << >>
  /\ reqs = << >>
  /\ resps = << >>
  /\ res = NoResponse
  /\ zipfileres = NoResponse
  /\ reqid = ""
  /\ download_url = << >>
  /\ waits = 0
  /\ progress_foreign = NoBar
  /\ progress_own = NoBar
  /\ stream = << >>
  /\ buf = << >>
  /\ result = Running
  /\ stderr_out = << >>
  /\ exit_code = -1

-----------------------------------------------------------------------------
(* Helpers shared by the steps of run_app(). *)

requrl == root_api_url \o << "/full/custom" >>
\* variant: the status URL is built from a fixed request id
status_url_FixedId == root_api_url \o << "/full/custom/", "abc123", "/status" >>
status_url == root_api_url \o << "/full/custom/", reqid, "/status" >>

\* number of requests of one call ("submit", "status", "fetch") sent so far
Sent(call) == Cardinality({ i \in 1..Len(reqs) : reqs[i].call = call })

\* client.<verb>(url)...send(): the request goes out and code comes back
\* (TransportFailure when send() returns Err)
Send(call, verb, url, code) ==
  /\ reqs' = Append(reqs, [call |-> call, verb |-> verb, url |-> url])
  /\ resps' = Append(resps, [call |-> call, code |-> code])

\* run_app() returns r: its locals, the output writer among them, are dropped
Return(r) ==
  /\ pc' = "returned"
  /\ result' = r
  /\ output_writer' = [output_writer EXCEPT !.open = FALSE]

\* variant: every 2xx answer to the POST counts as accepted
SubmitAccepted_Any2xx(r) == r.code \in { 200, 201, 202 }

\* the submission counts as accepted
SubmitAccepted(r) == r.code = StatusCode_ACCEPTED

\* variant: 202 Accepted is taken for "still processing" as well
PollClass_AcceptedIsProcessing(r) ==
  CASE r.code \in { StatusCode_OK, StatusCode_ACCEPTED } -> "processing"
    [] r.code = StatusCode_CREATED -> "ready"
    [] OTHER -> "unexpected"

\* match res.status() of the poll loop
PollClass(r) ==
  CASE r.code = StatusCode_OK -> "processing"
    [] r.code = StatusCode_CREATED -> "ready"
    [] OTHER -> "unexpected"

\* variant: every 2xx answer to the archive GET is copied to the sink
FetchOk_Any2xx(r) == r.code \in { 200, 201, 202 }

\* match zipfileres.status()
FetchOk(r) == r.code = StatusCode_OK

\* ProgressBar::tick, ::set, ::finish, and the Write impl (adds the length)
tick(bar) == [bar EXCEPT !.ticks = @ + 1]
set(bar, v) == [bar EXCEPT !.current = v]
finish(bar) == [bar EXCEPT !.finished = TRUE]
add(bar, k) == [bar EXCEPT !.current = @ + k]

-----------------------------------------------------------------------------
(* Local I/O before any request. *)

\* main.rs:108-116  the polygon is the argument itself or is read from a file
ReadPolygon ==
  /\ pc = "read_polygon"
  /\ \E bounding_polygon_is_file \in BOOLEAN, read_ok \in BOOLEAN :
       IF bounding_polygon_is_file /\ ~read_ok
         THEN Return(Err(IoError))
         ELSE /\ pc' = "create_output"
              /\ UNCHANGED << result, output_writer >>
  /\ UNCHANGED << show_progress, sink, reqs, resps, res, zipfileres,
                  reqid, download_url,
                  waits, progress_foreign, progress_own, stream, buf,
                  stderr_out, exit_code >>

\* variant: a failed File::create is ignored and the run goes on
CreateOutput_IgnoreFailure ==
  /\ pc = "create_output"
  /\ \E kind \in { "file", "stdout" }, create_ok \in BOOLEAN :
       IF kind = "file" /\ ~create_ok
         THEN /\ pc' = "submit"
              /\ UNCHANGED << output_writer, sink, result >>
         ELSE /\ pc' = "submit"
              /\ output_writer' = [kind |-> kind, open |-> TRUE, tee |-> FALSE]
              /\ sink' = << >>
              /\ result' = result
  /\ UNCHANGED << show_progress, reqs, resps, res, zipfileres, reqid,
                  download_url, waits, progress_foreign, progress_own, stream,
                  buf, stderr_out, exit_code >>

\* main.rs:121-130  File::create (truncating) or stdout
CreateOutput ==
  /\ pc = "create_output"
  /\ \E kind \in { "file", "stdout" }, create_ok \in BOOLEAN :
       IF kind = "file" /\ ~create_ok
         THEN /\ Return(Err(IoError))
              /\ sink' = sink
         ELSE /\ pc' = "submit"
              /\ output_writer' = [kind |-> kind, open |-> TRUE, tee |-> FALSE]
              /\ sink' = << >>
              /\ result' = result
  /\ UNCHANGED << show_progress, reqs, resps, res, zipfileres,
                  reqid, download_url, waits,
                  progress_foreign, progress_own, stream, buf, stderr_out,
                  exit_code >>

-----------------------------------------------------------------------------
(* Submission: main.rs:149-173. *)

\* Option::expect on None: the panic message goes to standard error while the
\* locals of run_app() are still alive; they are dropped by the unwinding
Panic(msg) ==
  /\ pc' = "panicking"
  /\ stderr_out' = Append(stderr_out, << "thread 'main' panicked at ", msg >>)
  /\ UNCHANGED << result, output_writer >>

\* main.rs:158-173  what the run does with the response to the POST
SubmitResponse(r) ==
  IF ~SubmitAccepted(r)
    THEN /\ Return(Err(UnexpectedStatusCodeError(r, "POST")))
         /\ UNCHANGED << reqid, progress_foreign, stderr_out >>
  ELSE IF text(r) = << >>
    THEN /\ Return(Err(ReqwestError))
         /\ UNCHANGED << reqid, progress_foreign, stderr_out >>
  ELSE IF parse(r) = << >>
    THEN /\ Return(Err(JsonError))
         /\ UNCHANGED << reqid, progress_foreign, stderr_out >>
  ELSE IF as_str(parse(r)[1]) = << >>
    THEN /\ Panic("Verkregen downloadRequestId van de PDOK API is geen string.")
         /\ UNCHANGED << reqid, progress_foreign >>
  ELSE /\ reqid' = as_str(parse(r)[1])[1]
       /\ progress_foreign' =
            IF show_progress THEN ProgressBar(100) ELSE progress_foreign
       /\ pc' = "poll"
       /\ UNCHANGED << result, output_writer, stderr_out >>

\* main.rs:151-173
Submit ==
  /\ pc = "submit"
  /\ \/ /\ Send("submit", "POST", requrl, TransportFailure)
        /\ Return(Err(ReqwestError))
        /\ UNCHANGED << res, reqid, progress_foreign, stderr_out >>
     \/ \E r \in SubmitResponses :
          /\ Send("submit", "POST", requrl, r.code)
          /\ res' = [r EXCEPT !.url = requrl]
          /\ SubmitResponse(res')
  /\ UNCHANGED << show_progress, sink, zipfileres, download_url, waits,
                  progress_own, stream, buf, exit_code >>

-----------------------------------------------------------------------------
(* The poll loop: main.rs:175-245. *)

\* variant: the job bar never moves backwards
ProcessingProgress_Monotonic(bar, r) ==
  IF ~show_progress THEN bar
  ELSE IF text(r) # << >> /\ parse(r) # << >> /\ as_u64(parse(r)[1]) # << >>
                          /\ as_u64(parse(r)[1])[1] >= bar.current
    THEN set(tick(bar), as_u64(parse(r)[1])[1])
    ELSE tick(bar)

\* main.rs:183-202  the job bar after a Processing response
ProcessingProgress(bar, r) ==
  IF ~show_progress THEN bar
  ELSE IF text(r) # << >> /\ parse(r) # << >> /\ as_u64(parse(r)[1]) # << >>
    THEN set(tick(bar), as_u64(parse(r)[1])[1])
    ELSE tick(bar)

\* variant: with progress on, a Processing body that cannot be read or
\* parsed is an error (text()? and json::parse(..)? in the OK arm)
StatusResponse_BodyErrorsPropagate(r) ==
  CASE PollClass(r) = "processing" ->
         IF show_progress /\ parse(r) = << >>
           THEN /\ Return(Err(IF text(r) = << >> THEN ReqwestError
                                                ELSE JsonError))
                /\ progress_foreign' =  tick(progress_foreign)
                /\ UNCHANGED download_url
           ELSE /\ progress_foreign' = ProcessingProgress(progress_foreign, r)
                /\ pc' = "sleep"
                /\ UNCHANGED << result, output_writer, download_url >>
    [] PollClass(r) = "ready" ->
         /\ progress_foreign' =
              IF show_progress THEN finish(progress_foreign)
              ELSE progress_foreign
         /\ IF text(r) = << >>
              THEN Return(Err(ReqwestError)) /\ UNCHANGED download_url
            ELSE IF parse(r) = << >>
              THEN Return(Err(JsonError)) /\ UNCHANGED download_url
            ELSE /\ download_url' = << root_url, DisplayJson(parse(r)[1]) >>
                 /\ pc' = "fetch"
                 /\ UNCHANGED << result, output_writer >>
    [] OTHER ->
         /\ Return(Err(UnexpectedStatusCodeError(r, "GET")))
         /\ UNCHANGED << progress_foreign, download_url >>

\* main.rs:181-243  what the run does with the response to the status GET
StatusResponse(r) ==
  CASE PollClass(r) = "processing" ->
         /\ progress_foreign' = ProcessingProgress(progress_foreign, r)
         /\ pc' = "sleep"
         /\ UNCHANGED << result, output_writer, download_url >>
    [] PollClass(r) = "ready" ->
         /\ progress_foreign' =
              IF show_progress THEN finish(progress_foreign)
              ELSE progress_foreign
         /\ IF text(r) = << >>
              THEN Return(Err(ReqwestError)) /\ UNCHANGED download_url
            ELSE IF parse(r) = << >>
              THEN Return(Err(JsonError)) /\ UNCHANGED download_url
            ELSE /\ download_url' = << root_url, DisplayJson(parse(r)[1]) >>
                 /\ pc' = "fetch"
                 /\ UNCHANGED << result, output_writer >>
    [] OTHER ->
         /\ Return(Err(UnexpectedStatusCodeError(r, "GET")))
         /\ UNCHANGED << progress_foreign, download_url >>

\* main.rs:176-180 and the match on the answer
Poll ==
  /\ pc = "poll"
  /\ Sent("status") < MaxPolls
  /\ \/ /\ Send("status", "GET", status_url, TransportFailure)
        /\ Return(Err(ReqwestError))
        /\ UNCHANGED << res, progress_foreign, download_url >>
     \/ \E r \in StatusResponses :
          /\ Send("status", "GET", status_url, r.code)
          /\ res' = [r EXCEPT !.url = status_url]
          /\ StatusResponse(res')
  /\ UNCHANGED << show_progress, sink, zipfileres, reqid, waits, progress_own,
                  stream, buf, stderr_out, exit_code >>

\* variant: the loop continues without sleeping
Sleep_NoWait ==
  /\ pc = "sleep"
  /\ pc' = "poll"
  /\ UNCHANGED << show_progress, output_writer, sink, reqs, resps, res,
                  zipfileres, reqid, download_url, waits, progress_foreign,
                  progress_own, stream, buf, result, stderr_out, exit_code >>

\* variant: the loop gives up after two waits
Sleep_MaxIterations ==
  /\ pc = "sleep"
  /\ waits' = waits + 1
  /\ IF waits' >= 2
       THEN Return(Err(ReqwestError))
       ELSE pc' = "poll" /\ UNCHANGED << result, output_writer >>
  /\ UNCHANGED << show_progress, sink, reqs, resps, res, zipfileres, reqid,
                  download_url, progress_foreign, progress_own, stream, buf,
                  stderr_out, exit_code >>

\* main.rs:204-205  sleep(probing_interval); continue
Sleep ==
  /\ pc = "sleep"
  /\ waits' = waits + 1
  /\ pc' = "poll"
  /\ UNCHANGED << show_progress, output_writer, sink, reqs, resps, res, zipfileres,
                  reqid,
                  download_url, progress_foreign, progress_own, stream, buf,
                  result, stderr_out, exit_code >>

-----------------------------------------------------------------------------
(* The download: main.rs:216-241. *)

\* variant: the download bar is set up whenever a length is declared
FetchResponse_AlwaysBar(r) ==
  IF FetchOk(r)
    THEN /\ IF r.length # << >>
              THEN /\ progress_own' = ProgressBar(r.length[1])
                   /\ output_writer' = [output_writer EXCEPT !.tee = TRUE]
              ELSE UNCHANGED << progress_own, output_writer >>
         /\ stream' = r.bytes
         /\ pc' = "copy"
         /\ UNCHANGED result
    ELSE /\ Return(Err(UnexpectedStatusCodeError(r, "GET")))
         /\ UNCHANGED << progress_own, stream >>

\* main.rs:221-240  what the run does with the response to the archive GET
FetchResponse(r) ==
  IF FetchOk(r)
    THEN /\ IF show_progress /\ r.length # << >>
              THEN /\ progress_own' = ProgressBar(r.length[1])
                   /\ output_writer' = [output_writer EXCEPT !.tee = TRUE]
              ELSE UNCHANGED << progress_own, output_writer >>
         /\ stream' = r.bytes
         /\ pc' = "copy"
         /\ UNCHANGED result
    ELSE /\ Return(Err(UnexpectedStatusCodeError(r, "GET")))
         /\ UNCHANGED << progress_own, stream >>

\* main.rs:217-240
Fetch ==
  /\ pc = "fetch"
  /\ \/ /\ Send("fetch", "GET", download_url, TransportFailure)
        /\ Return(Err(ReqwestError))
        /\ UNCHANGED << zipfileres, progress_own, stream >>
     \/ \E r \in FetchResponses :
          /\ Send("fetch", "GET", download_url, r.code)
          /\ zipfileres' = [r EXCEPT !.url = download_url]
          /\ FetchResponse(zipfileres')
  /\ UNCHANGED << show_progress, sink, res, reqid, download_url, waits,
                  progress_foreign, buf, stderr_out, exit_code >>

\* variant: the TeeWriter reports the whole chunk, not the bytes written
write_TeeCountsChunk(data, k) ==
  /\ sink' = sink \o SubSeq(data, 1, k)
  /\ progress_own' =
       IF output_writer.tee THEN add(progress_own, Len(data)) ELSE progress_own

\* Write::write of output_writer for the first k bytes of data: the file or
\* stdout takes them, and a TeeWriter hands the same bytes to the download bar
write(data, k) ==
  /\ sink' = sink \o SubSeq(data, 1, k)
  /\ progress_own' =
       IF output_writer.tee THEN add(progress_own, k) ELSE progress_own

\* variant: chunks are read ahead of the writes and queued
CopyRead_ReadAhead ==
  /\ pc = "copy"
  /\ \/ /\ stream # << >>
        /\ \E k \in 1..Len(stream) :
             /\ buf' = buf \o SubSeq(stream, 1, k)
             /\ stream' = SubSeq(stream, k + 1, Len(stream))
        /\ UNCHANGED << pc, result, output_writer >>
     \/ /\ stream = << >>
        /\ buf = << >>
        /\ Return(Ok)
        /\ UNCHANGED << buf, stream >>
     \/ /\ buf = << >>
        /\ Return(Err(ReqwestError))
        /\ UNCHANGED << buf, stream >>
  /\ UNCHANGED << show_progress, sink, reqs, resps, res, zipfileres, reqid,
                  download_url, waits, progress_foreign, progress_own,
                  stderr_out, exit_code >>

\* main.rs:230, 235  copy_to: read one chunk of the body, or see its end
CopyRead ==
  /\ pc = "copy"
  /\ buf = << >>
  /\ \/ /\ stream # << >>
        /\ \E k \in 1..Len(stream) :
             /\ buf' = SubSeq(stream, 1, k)
             /\ stream' = SubSeq(stream, k + 1, Len(stream))
        /\ UNCHANGED << pc, result, output_writer >>
     \/ /\ stream = << >>
        /\ Return(Ok)
        /\ UNCHANGED << buf, stream >>
     \/ /\ Return(Err(ReqwestError))
        /\ UNCHANGED << buf, stream >>
  /\ UNCHANGED << show_progress, sink, reqs, resps, res, zipfileres,
                  reqid, download_url,
                  waits, progress_foreign, progress_own, stderr_out,
                  exit_code >>

\* variant: one write per chunk; what the writer did not take is lost
CopyWrite_NoWriteAll ==
  /\ pc = "copy"
  /\ buf # << >>
  /\ \/ /\ \E k \in 1..Len(buf) : write(buf, k)
        /\ buf' = << >>
        /\ UNCHANGED << pc, result, output_writer >>
     \/ /\ Return(Err(IoError))
        /\ UNCHANGED << buf, sink, progress_own >>
  /\ UNCHANGED << show_progress, reqs, resps, res, zipfileres, reqid,
                  download_url, waits, progress_foreign, stream, stderr_out,
                  exit_code >>

\* main.rs:230, 235  copy_to: write the chunk, as many bytes as the writer takes
CopyWrite ==
  /\ pc = "copy"
  /\ buf # << >>
  /\ \/ /\ \E k \in 1..Len(buf) :
             /\ write(buf, k)
             /\ buf' = SubSeq(buf, k + 1, Len(buf))
        /\ UNCHANGED << pc, result, output_writer >>
     \/ /\ Return(Err(IoError))
        /\ UNCHANGED << buf, sink, progress_own >>
  /\ UNCHANGED << show_progress, reqs, resps, res, zipfileres,
                  reqid, download_url, waits,
                  progress_foreign, stream, stderr_out, exit_code >>

-----------------------------------------------------------------------------
(* main(): main.rs:62-70. *)

\* the result of run_app() becomes the exit status; an error is printed first
Main ==
  /\ pc = "returned"
  /\ IF result.tag = "Err"
       THEN /\ stderr_out' =
                 Append(stderr_out, << "Error: " >> \o Display(result.err))
            /\ exit_code' = 1
       ELSE /\ stderr_out' = stderr_out
            /\ exit_code' = 0
  /\ pc' = "exited"
  /\ UNCHANGED << show_progress, output_writer, sink, reqs, resps, res, zipfileres,
                  reqid,
                  download_url, waits, progress_foreign, progress_own, stream,
                  buf, result >>

\* a panic unwinds run_app() and main(): the locals are dropped and the
\* process ends with the panic exit status
Unwind ==
  /\ pc = "panicking"
  /\ output_writer' = [output_writer EXCEPT !.open = FALSE]
  /\ exit_code' = PanicExit
  /\ pc' = "exited"
  /\ UNCHANGED << show_progress, sink, reqs, resps, res, zipfileres,
                  reqid, download_url,
                  waits, progress_foreign, progress_own, stream, buf, result,
                  stderr_out >>

Next ==
  \/ ReadPolygon
  \/ CreateOutput
  \/ Submit
  \/ Poll
  \/ Sleep
  \/ Fetch
  \/ CopyRead
  \/ CopyWrite
  \/ Main
  \/ Unwind

Spec == Init /\ [][Next]_vars

-----------------------------------------------------------------------------
(* Vocabulary of the properties. *)

\* the codes the status requests were answered with, in order
StatusAnswers ==
  LET polls == SelectSeq(resps, LAMBDA e : e.call = "status")
  IN  [i \in 1..Len(polls) |-> polls[i].code]
\* how many of them said Processing
ProcessingAnswers ==
  Cardinality({ i \in 1..Len(StatusAnswers) : StatusAnswers[i] = StatusCode_OK })
LastAnswer == resps[Len(resps)]
Ended == pc \in { "returned", "exited" }
Contains(line, piece) == \E i \in 1..Len(line) : line[i] = piece
\* the status codes each call takes for success
SuccessCodes(call) ==
  CASE call = "submit" -> { StatusCode_ACCEPTED }
    [] call = "status" -> { StatusCode_OK, StatusCode_CREATED }
    [] OTHER -> { StatusCode_OK }
VerbOf(call) == IF call = "submit" THEN "POST" ELSE "GET"

-----------------------------------------------------------------------------
(* C1: there is exactly one wait per Processing (200) answer and none      *)
(* otherwise; the loop is left at the first answer that is not Processing, *)
(* so k Processing answers followed by Ready (201 with a JSON body) mean k *)
(* waits, k+1 status requests, and then the fetch request.                 *)
C1_OneWaitPerProcessing ==
  LET n == Len(StatusAnswers)
  IN  /\ waits = ProcessingAnswers - (IF pc = "sleep" THEN 1 ELSE 0)
      /\ \A i \in 1..(n - 1) : StatusAnswers[i] = StatusCode_OK
      /\ Sent("status") = n
      /\ (n > 0 /\ pc \notin { "poll", "sleep" }) =>
           /\ StatusAnswers[n] # StatusCode_OK
           /\ waits = n - 1
      /\ (n > 0 /\ StatusAnswers[n] = StatusCode_CREATED
                /\ res.body.kind = "json") =>
           \/ pc = "fetch" /\ Sent("fetch") = 0
           \/ Sent("fetch") = 1 /\ reqs[Len(reqs)].call = "fetch"
      /\ Sent("fetch") > 0 =>
           n > 0 /\ StatusAnswers[n] = StatusCode_CREATED /\ waits = n - 1

C1_Witness ==
  /\ StatusAnswers = << 200, 200, 200, 201 >>
  /\ waits = 3
  /\ Sent("status") = 4
  /\ Sent("fetch") = 1

(* C2: while every status request has been answered Processing (200), the  *)
(* run is still in the poll loop: it has not returned, has not exited and  *)
(* has issued no fetch request, however many answers there were.           *)
C2_ProcessingNeverLeavesLoop ==
  (Len(StatusAnswers) > 0 /\ ProcessingAnswers = Len(StatusAnswers)) =>
    /\ pc \in { "poll", "sleep" }
    /\ result = Running
    /\ exit_code = -1
    /\ Sent("fetch") = 0

C2_Witness ==
  /\ Len(StatusAnswers) >= 4
  /\ ProcessingAnswers = Len(StatusAnswers)
  /\ waits >= 3
  /\ pc = "sleep"

(* C3: when the POST is answered with a code other than 202, the run fails *)
(* with exit code 1 without any status or fetch request, and the printed   *)
(* error holds the status code and the body text when one could be read.   *)
C3_RejectedSubmitFails ==
  (Len(resps) > 0 /\ resps[1].code \notin { StatusCode_ACCEPTED, TransportFailure }) =>
    /\ Sent("status") = 0
    /\ Sent("fetch") = 0
    /\ Ended
    /\ result.tag = "Err"
    /\ pc = "exited" =>
         /\ exit_code = 1
         /\ Len(stderr_out) = 1
         /\ Contains(stderr_out[1], "Error: ")
         /\ Contains(stderr_out[1], ToString(resps[1].code))
         /\ text(res) # << >> => Contains(stderr_out[1], text(res)[1])

C3_Witness ==
  /\ pc = "exited"
  /\ Len(resps) = 1
  /\ resps[1].code = 500
  /\ text(res) = << "oops" >>
  /\ exit_code = 1

(* C4: for each of the three calls, an answer whose code is outside the    *)
(* call's success set ends the run with the unexpected-status error that   *)
(* carries this code and the call's verb: no panic, no further request, no *)
(* success.                                                                *)
C4_UnexpectedStatusIsError ==
  (Len(resps) > 0 /\ LastAnswer.code # TransportFailure
                  /\ LastAnswer.code \notin SuccessCodes(LastAnswer.call)) =>
    /\ Ended
    /\ result.tag = "Err"
    /\ result.err.kind = "status"
    /\ result.err.response.code = LastAnswer.code
    /\ result.err.method = VerbOf(LastAnswer.call)
    /\ reqs[Len(reqs)].call = LastAnswer.call
    /\ Len(reqs) = Len(resps)
    /\ exit_code \in { -1, 1 }

C4_Witness ==
  /\ pc = "exited"
  /\ Len(resps) = 3
  /\ LastAnswer.call = "fetch"
  /\ LastAnswer.code = 404
  /\ result.err.method = "GET"
  /\ exit_code = 1

(* C5: when a status request is answered Ready (201) with a JSON body      *)
(* whose _links.download.href is missing or is not a string, no fetch      *)
(* request is issued and the run fails.                                    *)
C5_MalformedReadyFails ==
  (Len(StatusAnswers) > 0
     /\ StatusAnswers[Len(StatusAnswers)] = StatusCode_CREATED
     /\ res.body.kind = "json" /\ as_str(res.body.field) = << >>) =>
    /\ Sent("fetch") = 0
    /\ pc # "copy"
    /\ pc = "exited" => (exit_code = 1 /\ result.tag = "Err")

(* C6: when the POST is answered 202 with a JSON body that has no string   *)
(* downloadRequestId, the run ends with a returned error and never panics. *)
C6_MalformedAcceptedIsReturnedError ==
  (Len(resps) = 1 /\ resps[1].code = StatusCode_ACCEPTED
     /\ res.body.kind = "json" /\ as_str(res.body.field) = << >>) =>
    /\ pc # "panicking"
    /\ exit_code # PanicExit
    /\ Ended
    /\ result.tag = "Err"

(* C7: a run that has exited has exit code 0 exactly when run_app returned *)
(* Ok after copying the whole body of a 200 fetch answer to the sink, and  *)
(* exit code 1 in every other case.                                        *)
C7_ExitCodeZeroOrOne ==
  pc = "exited" =>
    /\ exit_code \in { 0, 1 }
    /\ exit_code = 0 <=>
         /\ result.tag = "Ok"
         /\ Sent("fetch") = 1
         /\ zipfileres.code = StatusCode_OK
         /\ sink = zipfileres.bytes

(* C8: whenever an error has been printed or the process has exited, the   *)
(* output writer opened at start has already been released.                *)
C8_SinkReleasedBeforeReport ==
  (stderr_out # << >> \/ pc = "exited") => ~output_writer.open

(* C9: after a successful download with the download bar active, the bytes *)
(* the bar has counted equal the bytes the sink has received.              *)
C9_BarCountsSinkBytes ==
  (Ended /\ result.tag = "Ok" /\ progress_own.on) =>
    progress_own.current = Len(sink)

C9_Witness ==
  /\ pc = "exited"
  /\ result.tag = "Ok"
  /\ progress_own.on
  /\ progress_own.current = 3
  /\ Len(sink) = 3

(* C10: when the run succeeds the sink holds exactly the bytes of the      *)
(* fetch body, in order.                                                   *)
C10_SinkIsBody ==
  result.tag = "Ok" => sink = zipfileres.bytes

C10_Witness ==
  /\ pc = "exited"
  /\ exit_code = 0
  /\ zipfileres.bytes = << 0, 1, 1 >>
  /\ sink = << 0, 1, 1 >>
  /\ ~show_progress

(* C11: with progress enabled, handling a Processing (200) answer calls    *)
(* tick once on the job bar and leaves it showing the numeric progress     *)
(* field of that answer when there is one (a lower value than before       *)
(* included) and the value it showed before otherwise; the run goes on to  *)
(* the wait without any error.                                             *)
C11_ProcessingUpdatesBar ==
  [][ (show_progress /\ pc = "poll" /\ Len(resps') > Len(resps)
         /\ resps'[Len(resps')].code = StatusCode_OK) =>
        /\ progress_foreign'.ticks = progress_foreign.ticks + 1
        /\ progress_foreign'.current =
             IF res'.body.kind = "json" /\ res'.body.field.t = "num"
               THEN res'.body.field.n
               ELSE progress_foreign.current
        /\ ~progress_foreign'.finished
        /\ pc' = "sleep"
        /\ result' = Running
        /\ stderr_out' = << >> ]_vars

C11_Witness ==
  /\ show_progress
  /\ pc = "sleep"
  /\ progress_foreign.ticks = 3
  /\ progress_foreign.current = 10
  /\ res.body.field = Null

(* C12: a run that ends without an output writer (reading the polygon file *)
(* or creating the output file failed) has failed without sending any      *)
(* request, and no request is ever sent before both local steps are done.  *)
C12_LocalIoBeforeRequests ==
  /\ pc \in { "read_polygon", "create_output" } => reqs = << >>
  /\ Len(reqs) > 0 => output_writer.kind # "none"
  /\ (pc \notin { "read_polygon", "create_output" }
        /\ output_writer.kind = "none") =>
       /\ Ended
       /\ result = Err(IoError)
       /\ reqs = << >>
       /\ resps = << >>
       /\ exit_code \in { -1, 1 }

C12_Witness ==
  /\ pc = "exited"
  /\ output_writer.kind = "none"
  /\ result = Err(IoError)
  /\ reqs = << >>
  /\ exit_code = 1

\* a success answer whose body lacks what the run needs from it
MalformedAccepted ==
  /\ Len(resps) = 1
  /\ resps[1].code = StatusCode_ACCEPTED
  /\ (res.body.kind # "json" \/ as_str(res.body.field) = << >>)
MalformedReady ==
  /\ Len(StatusAnswers) > 0
  /\ StatusAnswers[Len(StatusAnswers)] = StatusCode_CREATED
  /\ (res.body.kind # "json" \/ as_str(res.body.field) = << >>)
\* what C13 says of transport errors, unexpected statuses and repetition
ErrorAnswersAreTerminal ==
  /\ Sent("submit") <= 1
  /\ Sent("fetch") <= 1
  /\ \A i \in 1..(Len(resps) - 1) :
       /\ resps[i].code \in SuccessCodes(resps[i].call)
       /\ resps[i + 1].call = resps[i].call =>
            (resps[i].call = "status" /\ resps[i].code = StatusCode_OK)
  /\ (Len(resps) > 0 /\ LastAnswer.code \notin SuccessCodes(LastAnswer.call)) =>
       (Ended /\ result.tag = "Err")

(* C13: every error is terminal: after a transport error, an unexpected    *)
(* status or a malformed success body no further request is sent and the   *)
(* run does not end Ok; only the status request is repeated, and only      *)
(* after a Processing answer.                                              *)
C13_ErrorsAreTerminal ==
  /\ ErrorAnswersAreTerminal
  /\ MalformedAccepted => (Sent("status") = 0 /\ result.tag # "Ok")
  /\ MalformedReady => (Sent("fetch") = 0 /\ result.tag # "Ok")

(* C14: without the progress flag neither bar is ever created or touched:  *)
(* no tick, set, finish, download start or byte count in any state.        *)
C14_NoFlagNoReporter ==
  ~show_progress =>
    /\ progress_foreign = NoBar
    /\ progress_own = NoBar
    /\ ~output_writer.tee

C14_Witness ==
  /\ ~show_progress
  /\ pc = "exited"
  /\ exit_code = 0
  /\ waits >= 2
  /\ zipfileres.length = << 3 >>
  /\ Len(sink) = 3

\* the phase of the run: 0 local set-up, 1 Submitting, 2 Polling,
\* 3 Downloading, 4 Done, 5 Failed
Phase ==
  CASE pc \in { "read_polygon", "create_output" } -> 0
    [] pc = "submit" -> 1
    [] pc \in { "poll", "sleep" } -> 2
    [] pc \in { "fetch", "copy" } -> 3
    [] result.tag = "Ok" -> 4
    [] OTHER -> 5

RequestDiscipline ==
  /\ Phase \in { 0, 1 } => reqs = << >>
  /\ Phase \in { 2, 3, 4 } => Sent("submit") = 1
  /\ Sent("submit") <= 1
  /\ Sent("fetch") <= 1
  /\ Len(reqs) = Len(resps)
  /\ \A i \in 1..Len(reqs) :
       /\ reqs[i].call = "submit" <=> i = 1
       /\ reqs[i].call = "status" =>
            /\ resps[1].code = StatusCode_ACCEPTED
            /\ reqs[i].url =
                 root_api_url \o << "/full/custom/", reqid, "/status" >>
       /\ reqs[i].call = "fetch" =>
            /\ i = Len(reqs)
            /\ i > 1
            /\ resps[i - 1] = [call |-> "status", code |-> StatusCode_CREATED]
  /\ (pc = "poll" /\ Sent("status") = 0) => as_str(res.body.field) = << reqid >>

(* C15: the phases follow one another in the order Submitting, Polling,    *)
(* Downloading, Done, each able to go to Failed; submit is the first       *)
(* request and is sent once, every status request follows a 202 and        *)
(* carries the id that answer returned, the fetch is sent at most once and *)
(* right after a 201, and nothing changes once the run is Done or Failed.  *)
C15_PhaseOrder ==
  /\ []RequestDiscipline
  /\ [][ /\ Phase' \in { Phase, Phase + 1, 5 }
         /\ Phase \in { 4, 5 } =>
              /\ Phase' = Phase
              /\ UNCHANGED << reqs, resps, sink, waits, result >>
         /\ Phase >= 2 => reqid' = reqid ]_vars

C15_Witness ==
  /\ pc = "exited"
  /\ exit_code = 0
  /\ reqid = "xyz789"
  /\ Sent("status") = 3
  /\ Sent("fetch") = 1

(* C16: when the copy has finished successfully with the download bar      *)
(* active, finish has been called on that bar before Ok is returned.       *)
C16_DownloadBarFinished ==
  (result.tag = "Ok" /\ progress_own.on) => progress_own.finished

(* C17: with the wrapped sink, a chunk is read only when the previous one  *)
(* has been written and reported in full: at every read the bar's count is *)
(* the number of bytes in the sink, and throughout the copy the sink, the  *)
(* one chunk in flight and the unread rest make up the body.               *)
C17_ChunkWrittenBeforeNextRead ==
  /\ [](  (pc = "copy" /\ output_writer.tee) =>
            /\ progress_own.current = Len(sink)
            /\ sink \o buf \o stream = zipfileres.bytes )
  /\ [][ (output_writer.tee /\ stream' # stream) =>
           /\ buf = << >>
           /\ progress_own.current = Len(sink)
           /\ sink' = sink
           /\ buf' \o stream' = stream ]_vars

C17_Witness ==
  /\ pc = "copy"
  /\ output_writer.tee
  /\ Len(sink) = 1
  /\ progress_own.current = 1
  /\ Len(buf) = 1
  /\ Len(stream) = 1

(* C18: whatever the body of a Processing (200) answer is (unreadable, not *)
(* JSON, progress missing or not a number), with or without the progress   *)
(* flag, handling it raises no error: the run goes to the wait, and from   *)
(* the wait back to the next status request.                               *)
C18_ProcessingBodyIgnored ==
  /\ [][ (pc = "poll" /\ Len(resps') > Len(resps)
            /\ resps'[Len(resps')].code = StatusCode_OK) =>
           /\ pc' = "sleep"
           /\ res'.body \in ProcessingBodies
           /\ UNCHANGED << result, stderr_out, exit_code, waits, output_writer >> ]_vars
  /\ [][ pc = "sleep" =>
           /\ pc' = "poll"
           /\ waits' = waits + 1
           /\ UNCHANGED << result, stderr_out, exit_code, reqs >> ]_vars

C18_Witness ==
  /\ show_progress
  /\ pc = "poll"
  /\ waits = 2
  /\ res.code = StatusCode_OK
  /\ res.body.kind = "unreadable"
  /\ result = Running

(* C19: the sink receives bytes only after the archive GET was answered    *)
(* 200: a run that fails in the submission, in the poll loop or on the     *)
(* status of the fetch answer leaves the sink empty, although the output   *)
(* writer had been created (an existing file truncated) before the POST.   *)
C19_NoByteBeforeFetchOk ==
  /\ sink # << >> =>
       /\ Sent("fetch") = 1
       /\ LastAnswer = [call |-> "fetch", code |-> StatusCode_OK]
       /\ zipfileres.code = StatusCode_OK
  /\ (Len(resps) > 0
        /\ LastAnswer # [call |-> "fetch", code |-> StatusCode_OK]) =>
       /\ sink = << >>
       /\ output_writer.kind # "none"
       /\ result.tag # "Ok"
       /\ pc # "copy"

C19_Witness ==
  /\ pc = "exited"
  /\ exit_code = 1
  /\ output_writer.kind = "file"
  /\ Len(resps) = 3
  /\ resps[3] = [call |-> "fetch", code |-> 500]
  /\ zipfileres.bytes # << >>
  /\ sink = << >>

====
